---------------------------- MODULE Spec2Model ----------------------------
(***************************************************************************)
(* Model of the Trade Analysis API (src/app.py): the pure functions         *)
(* analyze_trades and generate_coach_response, and the two HTTP handlers    *)
(* get_trade_analysis and chat.                                             *)
(*                                                                          *)
(* Representation.                                                          *)
(*  - A Python str that the code searches, trims or lower-cases (notes,     *)
(*    trade_type, the user message) is a sequence of one-character          *)
(*    strings, so that strip(), lower() and "in" are computed character by  *)
(*    character.  A str that the code only builds and returns (the fixed    *)
(*    rule messages, the rendered templates) is a TLA+ string.              *)
(*  - A trade is a Python dict: a function whose DOMAIN is the set of keys  *)
(*    the row carries.                                                      *)
(*  - A float that results from dividing two integers is the reduced        *)
(*    fraction [n |-> numerator, d |-> denominator], d > 0.                 *)
(***************************************************************************)
EXTENDS Integers, Sequences, FiniteSets, TLC

VARIABLES
    pc,             \* position of the running function / handler
    trades,         \* the trade rows analyze_trades is applied to
    analysis,       \* the TradeAnalysisResult built, <<>> before
    user_message,   \* the message generate_coach_response is applied to
                    \* (last_message in chat)
    coach,          \* outcome of generate_coach_response: [exc, value]
    endpoint,       \* "chat" | "trade-analysis" | "none"
    credentials,    \* SUPABASE_URL and SUPABASE_SERVICE_KEY both set
    store,          \* "ok", or the text of the error execute() raises
    messages,       \* ChatRequest.messages
    user_id,        \* the request's user_id
    calls,          \* sequence of the calls made while serving the request
    reply           \* what the request ends with, <<>> while running

vars == <<pc, trades, analysis, user_message, coach, endpoint, credentials,
          store, messages, user_id, calls, reply>>

----------------------------------------------------------------------------
(* Bounds of the model. *)

MaxTrades == 3
MaxMessages == 3

----------------------------------------------------------------------------
(* Python str primitives, on sequences of characters. *)

\* The characters a string of the model can hold are those of Latin-1
\* (U+0000 to U+00FF).  UpperChars are all of them that str.lower() changes,
\* LowerChars what it changes each to.
UpperChars == <<"A","B","C","D","E","F","G","H","I","J","K","L","M",
                "N","O","P","Q","R","S","T","U","V","W","X","Y","Z",
                "À","Á","Â","Ã","Ä","Å","Æ","Ç","È","É","Ê","Ë","Ì",
                "Í","Î","Ï","Ð","Ñ","Ò","Ó","Ô","Õ","Ö","Ø","Ù","Ú",
                "Û","Ü","Ý","Þ">>
LowerChars == <<"a","b","c","d","e","f","g","h","i","j","k","l","m",
                "n","o","p","q","r","s","t","u","v","w","x","y","z",
                "à","á","â","ã","ä","å","æ","ç","è","é","ê","ë","ì",
                "í","î","ï","ð","ñ","ò","ó","ô","õ","ö","ø","ù","ú",
                "û","ü","ý","þ">>

LowerMap ==
    [c \in { UpperChars[i] : i \in DOMAIN UpperChars } |->
        LowerChars[CHOOSE i \in DOMAIN UpperChars : UpperChars[i] = c]]

\* str.lower() on one character
LowerChar(c) == IF c \in DOMAIN LowerMap THEN LowerMap[c] ELSE c

\* str.lower()
lower(s) == [i \in 1..Len(s) |-> LowerChar(s[i])]

\* the characters str.strip() removes: those for which str.isspace() holds
\* (tab, LF, VT, FF, CR, FS, GS, RS, US, space, NEL, no-break space)
Whitespace == {"\t","\n","","\f","\r","",
               "","",""," ",""," "}

RECURSIVE lstrip(_)
lstrip(s) == IF s # <<>> /\ Head(s) \in Whitespace THEN lstrip(Tail(s)) ELSE s

RECURSIVE rstrip(_)
rstrip(s) ==
    IF s # <<>> /\ s[Len(s)] \in Whitespace
    THEN rstrip(SubSeq(s, 1, Len(s) - 1))
    ELSE s

\* str.strip()
strip(s) == rstrip(lstrip(s))

\* term in s
Contains(s, term) ==
    \E i \in 0..(Len(s) - Len(term)) : SubSeq(s, i + 1, i + Len(term)) = term

\* any(term in s for term in terms)
ContainsAny(s, terms) == \E term \in terms : Contains(s, term)

\* sep.join(parts), parts a list of character sequences
RECURSIVE JoinChars(_, _)
JoinChars(sep, parts) ==
    IF parts = <<>> THEN <<>>
    ELSE IF Len(parts) = 1 THEN parts[1]
    ELSE parts[1] \o sep \o JoinChars(sep, Tail(parts))

\* sep.join(parts), parts a list of strings
RECURSIVE JoinStr(_, _)
JoinStr(sep, parts) ==
    IF parts = <<>> THEN ""
    ELSE IF Len(parts) = 1 THEN parts[1]
    ELSE parts[1] \o sep \o JoinStr(sep, Tail(parts))

\* dict.get(key, default)
get(d, key, default) == IF key \in DOMAIN d THEN d[key] ELSE default

\* truth value of d.get(key) for a str-valued key: present and non-empty
Truthy(d, key) == key \in DOMAIN d /\ d[key] # <<>>

----------------------------------------------------------------------------
(* Floats that are quotients of integers. *)

Abs(x) == IF x < 0 THEN -x ELSE x

RECURSIVE GCD(_, _)
GCD(a, b) == IF b = 0 THEN a ELSE GCD(b, a % b)

\* a / b for b > 0: the double nearest to the quotient, named by the reduced
\* fraction (equal quotients are equal doubles)
Div(a, b) ==
    LET g == GCD(Abs(a), b) IN [n |-> a \div g, d |-> b \div g]

Zero == [n |-> 0, d |-> 1]

\* x > 0.5
AboveHalf(x) == 2 * x.n > x.d

\* x > 0
Positive(x) == x.n > 0

----------------------------------------------------------------------------
(* analyze_trades, src/app.py lines 60-122. *)

\* profitable_trades with >= in place of >
profitable_trades_ge(ts) ==
    SelectSeq(ts, LAMBDA trade : get(trade, "pnl", 0) >= 0)

\* [trade for trade in trades if trade.get('pnl', 0) > 0]
profitable_trades(ts) == SelectSeq(ts, LAMBDA trade : get(trade, "pnl", 0) > 0)

\* sum(trade.get('pnl', 0) for trade in trades)
RECURSIVE total_pnl(_)
total_pnl(ts) ==
    IF ts = <<>> THEN 0 ELSE get(Head(ts), "pnl", 0) + total_pnl(Tail(ts))

\* len(profitable_trades) / len(trades) if trades else 0
win_rate(ts) ==
    IF ts # <<>> THEN Div(Len(profitable_trades(ts)), Len(ts)) ELSE Zero

\* total_pnl / len(trades) if trades else 0
avg_pnl(ts) == IF ts # <<>> THEN Div(total_pnl(ts), Len(ts)) ELSE Zero

\* set(trade.get('trade_type', '').strip() for trade in trades
\*     if trade.get('trade_type'))
strategy_set(ts) ==
    { strip(get(ts[i], "trade_type", <<>>)) :
        i \in { j \in DOMAIN ts : Truthy(ts[j], "trade_type") } }

\* list(S): the elements of the set S, each once, in an order the
\* interpreter chooses
ListOrders(S) ==
    { l \in [1..Cardinality(S) -> S] :
        \A i, j \in 1..Cardinality(S) : i # j => l[i] # l[j] }

\* [trade.get('notes', '') for trade in trades if trade.get('notes')]
RECURSIVE notes_list(_)
notes_list(ts) ==
    IF ts = <<>> THEN <<>>
    ELSE IF Truthy(Head(ts), "notes")
         THEN <<get(Head(ts), "notes", <<>>)>> \o notes_list(Tail(ts))
         ELSE notes_list(Tail(ts))

\* " ".join([...])
all_notes(ts) == JoinChars(<<" ">>, notes_list(ts))

EmotionTerms == { <<"e","m","o","t","i","o","n">>,
                  <<"f","e","a","r">>,
                  <<"g","r","e","e","d">> }
PlanTerm == <<"p","l","a","n">>

Entries(st, we, su) == [strengths |-> st, weaknesses |-> we, suggestions |-> su]

\* lines 88-92
WinRateRule(wr) ==
    IF AboveHalf(wr)
    THEN Entries(<<"Above 50% win rate">>, <<>>, <<>>)
    ELSE Entries(<<>>, <<"Below 50% win rate">>,
                 <<"Focus on improving your win rate by reviewing losing trades">>)

\* lines 94-98
PnlRule(avg) ==
    IF Positive(avg)
    THEN Entries(<<"Positive average P&L">>, <<>>, <<>>)
    ELSE Entries(<<>>, <<"Negative average P&L">>,
                 <<"Work on improving your average profit per trade">>)

\* lines 100-103
DiversityRule(strategies) ==
    IF Len(strategies) > 2
    THEN Entries(<<"Diverse trading approaches (" \o ToString(Len(strategies))
                   \o " different strategies)">>, <<>>, <<>>)
    ELSE Entries(<<>>, <<>>,
                 <<"Consider exploring more trading strategies to diversify your approach">>)

\* NotesRule without the .lower() calls
NotesRule_cased(notes) ==
    LET emotional == notes # <<>> /\ ContainsAny(notes, EmotionTerms)
        planned   == notes # <<>> /\ Contains(notes, PlanTerm)
    IN Entries(IF planned THEN <<"Evidence of trade planning in notes">> ELSE <<>>,
               IF emotional THEN <<"Emotional trading noted in multiple trades">>
                            ELSE <<>>,
               IF emotional THEN <<"Work on emotional discipline during trading">>
                            ELSE <<>>)

\* lines 106-113
NotesRule(notes) ==
    LET emotional == notes # <<>> /\ ContainsAny(lower(notes), EmotionTerms)
        planned   == notes # <<>> /\ Contains(lower(notes), PlanTerm)
    IN Entries(IF planned THEN <<"Evidence of trade planning in notes">> ELSE <<>>,
               IF emotional THEN <<"Emotional trading noted in multiple trades">>
                            ELSE <<>>,
               IF emotional THEN <<"Work on emotional discipline during trading">>
                            ELSE <<>>)

\* lines 61-69
EmptyAnalysis ==
    [win_rate |-> Zero, avg_profit_loss |-> Zero, strategies |-> <<>>,
     strengths |-> <<>>, weaknesses |-> <<>>,
     suggestions |-> <<"Start recording your trades to get personalized analysis.">>]

\* analyze_trades without the "if not trades" early return
analyze_trades_unguarded(ts, strategies) ==
    LET r1 == WinRateRule(win_rate(ts))
        r2 == PnlRule(avg_pnl(ts))
        r3 == DiversityRule(strategies)
        r4 == NotesRule(all_notes(ts))
    IN [win_rate        |-> win_rate(ts),
        avg_profit_loss |-> avg_pnl(ts),
        strategies      |-> strategies,
        strengths   |-> r1.strengths \o r2.strengths \o r3.strengths \o r4.strengths,
        weaknesses  |-> r1.weaknesses \o r2.weaknesses \o r3.weaknesses
                            \o r4.weaknesses,
        suggestions |-> r1.suggestions \o r2.suggestions \o r3.suggestions
                            \o r4.suggestions]

\* analyze_trades(trades), where strategies is the order list(set(...)) gave
analyze_trades(ts, strategies) ==
    IF ts = <<>> THEN EmptyAnalysis
    ELSE
    LET r1 == WinRateRule(win_rate(ts))
        r2 == PnlRule(avg_pnl(ts))
        r3 == DiversityRule(strategies)
        r4 == NotesRule(all_notes(ts))
    IN [win_rate        |-> win_rate(ts),
        avg_profit_loss |-> avg_pnl(ts),
        strategies      |-> strategies,
        strengths   |-> r1.strengths \o r2.strengths \o r3.strengths \o r4.strengths,
        weaknesses  |-> r1.weaknesses \o r2.weaknesses \o r3.weaknesses
                            \o r4.weaknesses,
        suggestions |-> r1.suggestions \o r2.suggestions \o r3.suggestions
                            \o r4.suggestions]

----------------------------------------------------------------------------
(* Inputs of analyze_trades: rows of the "trades" table. *)

T_empty      == <<>>
T_blank      == <<" "," ">>
T_scalp      == <<"s","c","a","l","p">>
T_scalp_sp   == <<"s","c","a","l","p"," ">>
T_sp_swing   == <<" ","s","w","i","n","g">>
T_day        == <<"d","a","y">>
T_day_ff     == <<"d","a","y","\f">>
N_greedy     == <<"F","e","e","l","i","n","g"," ","G","R","E","E","D","Y"," ","t","o","d","a","y">>
N_plan       == <<"f","o","l","l","o","w","e","d"," ","m","y"," ","p","l","a","n">>
N_complaint  == <<"c","o","m","p","l","a","i","n","t">>
N_explained  == <<"E","x","p","l","a","n","a","t","i","o","n">>
N_fearless   == <<"F","E","A","R","L","E","S","S">>
N_emotional  == <<"E","m","o","t","i","o","n","a","l"," ","e","x","i","t">>

PnlRows   == { [pnl |-> p] : p \in {-5, 0, 10, 20} }
TypeRows  == { [trade_type |-> t] :
                 t \in {T_empty, T_blank, T_scalp, T_scalp_sp, T_sp_swing,
                        T_day_ff} }
NotesRows == { [notes |-> n] :
                 n \in {T_empty, N_greedy, N_plan, N_complaint, N_explained,
                        N_fearless, N_emotional} }
FullRowA  == [pnl |-> 10, trade_type |-> T_scalp, notes |-> N_plan]
FullRowB  == [pnl |-> -10, trade_type |-> T_sp_swing, notes |-> N_greedy]
FullRowC  == [pnl |-> 20, trade_type |-> T_day]
\* a row with none of the three columns
BareRow   == [k \in {} |-> 0]

TradeRows == {BareRow} \cup PnlRows \cup TypeRows \cup NotesRows
                 \cup {FullRowA, FullRowB, FullRowC}

TradeLists == UNION { [1..n -> TradeRows] : n \in 0..MaxTrades }

----------------------------------------------------------------------------
(* Specification of analyze_trades applied to a list of rows. *)

Idle ==
    /\ user_message = <<>>
    /\ coach = <<>>
    /\ endpoint = "none"
    /\ credentials = TRUE
    /\ store = "ok"
    /\ messages = <<>>
    /\ user_id = "none"
    /\ calls = <<>>
    /\ reply = <<>>

InitAnalyze ==
    /\ pc = "analyze"
    /\ trades \in TradeLists
    /\ analysis = <<>>
    /\ Idle

AnalyzeTrades ==
    /\ pc = "analyze"
    /\ \E strategies \in ListOrders(strategy_set(trades)) :
           analysis' = analyze_trades(trades, strategies)
    /\ pc' = "analyzed"
    /\ UNCHANGED <<trades, user_message, coach, endpoint, credentials,
                   store, messages, user_id, calls, reply>>

NextAnalyze == AnalyzeTrades

SpecAnalyze == InitAnalyze /\ [][NextAnalyze]_vars

----------------------------------------------------------------------------
(* Properties of analyze_trades, checked under SpecAnalyze. *)

Range(l) == { l[i] : i \in DOMAIN l }
NoDuplicates(l) == \A i, j \in DOMAIN l : i # j => l[i] # l[j]
HasPnl(trade) == "pnl" \in DOMAIN trade
Wins == Cardinality({ i \in DOMAIN trades : HasPnl(trades[i]) /\ trades[i].pnl > 0 })
RECURSIVE SumPnl(_)
SumPnl(ts) ==
    IF ts = <<>> THEN 0
    ELSE (IF HasPnl(Head(ts)) THEN Head(ts).pnl ELSE 0) + SumPnl(Tail(ts))

\* C1: for a non-empty list of rows, win_rate is the number of rows whose pnl
\* is strictly positive divided by the number of rows, a row without pnl
\* counting as pnl = 0; hence 0 <= win_rate <= 1.
C1_WinRate ==
    (pc = "analyzed" /\ trades # <<>>) =>
        /\ analysis.win_rate.d > 0
        /\ analysis.win_rate.n * Len(trades) = Wins * analysis.win_rate.d
        /\ 0 <= analysis.win_rate.n
        /\ analysis.win_rate.n <= analysis.win_rate.d

\* a row without pnl, a row with pnl <= 0 and a winning row: win_rate 1/3
C1_Witness ==
    /\ pc = "analyzed"
    /\ Len(trades) = 3
    /\ \E i \in DOMAIN trades : ~HasPnl(trades[i])
    /\ \E i \in DOMAIN trades : HasPnl(trades[i]) /\ trades[i].pnl <= 0
    /\ \E i \in DOMAIN trades : HasPnl(trades[i]) /\ trades[i].pnl > 0
    /\ analysis.win_rate = [n |-> 1, d |-> 3]

\* C2: strategies is exactly the set of distinct, trimmed, non-empty
\* trade_type values: no duplicate, no surrounding whitespace, never the
\* empty string, and nothing from a row whose trade_type is missing or empty.
C2_Strategies ==
    pc = "analyzed" =>
        /\ Range(analysis.strategies) =
              { strip(trades[i].trade_type) :
                  i \in { j \in DOMAIN trades : "trade_type" \in DOMAIN trades[j] } }
              \ {<<>>}
        /\ NoDuplicates(analysis.strategies)
        /\ \A i \in DOMAIN analysis.strategies :
              /\ analysis.strategies[i] # <<>>
              /\ strip(analysis.strategies[i]) = analysis.strategies[i]

\* C3: for an empty list the result is win_rate 0, avg_profit_loss 0, empty
\* strategies, strengths and weaknesses, and exactly the onboarding
\* suggestion; no rule contributes an entry.
C3_EmptyInput ==
    (pc = "analyzed" /\ trades = <<>>) =>
        /\ analysis.win_rate.n = 0
        /\ analysis.avg_profit_loss.n = 0
        /\ analysis.strategies = <<>>
        /\ analysis.strengths = <<>>
        /\ analysis.weaknesses = <<>>
        /\ analysis.suggestions =
              <<"Start recording your trades to get personalized analysis.">>

C3_Witness ==
    /\ pc = "analyzed"
    /\ trades = <<>>
    /\ Len(analysis.suggestions) = 1

\* the lower-cased, space-joined text of the non-empty notes of the rows
RECURSIVE SearchText(_)
SearchText(ts) ==
    IF ts = <<>> THEN <<>>
    ELSE LET rest == SearchText(Tail(ts))
             n == IF "notes" \in DOMAIN Head(ts) THEN Head(ts).notes ELSE <<>>
         IN IF n = <<>> THEN rest
            ELSE IF rest = <<>> THEN lower(n)
            ELSE lower(n) \o <<" ">> \o rest

\* C4: for a non-empty list, the emotional-trading weakness and the
\* emotional-discipline suggestion are appended iff the search text contains
\* "emotion", "fear" or "greed", and the planning strength iff it contains
\* "plan"; the two tests are independent.
C4_NotesRule ==
    (pc = "analyzed" /\ trades # <<>>) =>
        LET T == SearchText(trades)
            emotional == \E term \in EmotionTerms : Contains(T, term)
            planned == Contains(T, PlanTerm)
        IN /\ ("Emotional trading noted in multiple trades"
                   \in Range(analysis.weaknesses)) <=> emotional
           /\ ("Work on emotional discipline during trading"
                   \in Range(analysis.suggestions)) <=> emotional
           /\ ("Evidence of trade planning in notes"
                   \in Range(analysis.strengths)) <=> planned

\* upper-case "GREEDY" and "plan" inside "Explanation" both match, and
\* "complaint" (which holds "plai", not "plan") matches nothing
C4_Witness ==
    /\ pc = "analyzed"
    /\ \E i \in DOMAIN trades : trades[i] = [notes |-> N_greedy]
    /\ \E i \in DOMAIN trades : trades[i] = [notes |-> N_explained]
    /\ \E i \in DOMAIN trades : trades[i] = [notes |-> N_complaint]
    /\ "Emotional trading noted in multiple trades" \in Range(analysis.weaknesses)
    /\ "Evidence of trade planning in notes" \in Range(analysis.strengths)

NotesEntries ==
    { "Emotional trading noted in multiple trades",
      "Work on emotional discipline during trading",
      "Evidence of trade planning in notes" }

\* l is prefix followed only by notes-rule entries
StartsWith(l, prefix) ==
    /\ Len(l) >= Len(prefix)
    /\ SubSeq(l, 1, Len(prefix)) = prefix
    /\ \A i \in (Len(prefix) + 1)..Len(l) : l[i] \in NotesEntries

\* the distinct, whitespace-trimmed, non-empty trade_type values of the input
DistinctStrategies ==
    { strip(trades[i].trade_type) :
        i \in { j \in DOMAIN trades : "trade_type" \in DOMAIN trades[j] } }
    \ {<<>>}

\* C9: for a non-empty list the win-rate, P&L and diversity rules contribute
\* one branch each, in that order: win_rate > 0.5 (strictly), sum of pnl > 0
\* (strictly), more than 2 distinct strategies of the input, naming that
\* count; the notes entries follow; every weakness comes with a suggestion,
\* so len(weaknesses) <= len(suggestions).
C9_RuleOrder ==
    (pc = "analyzed" /\ trades # <<>>) =>
        LET win  == 2 * Wins > Len(trades)
            gain == SumPnl(trades) > 0
            k    == Cardinality(DistinctStrategies)
        IN /\ StartsWith(analysis.strengths,
                 (IF win THEN <<"Above 50% win rate">> ELSE <<>>)
                 \o (IF gain THEN <<"Positive average P&L">> ELSE <<>>)
                 \o (IF k > 2
                     THEN <<"Diverse trading approaches (" \o ToString(k)
                            \o " different strategies)">>
                     ELSE <<>>))
           /\ StartsWith(analysis.weaknesses,
                 (IF win THEN <<>> ELSE <<"Below 50% win rate">>)
                 \o (IF gain THEN <<>> ELSE <<"Negative average P&L">>))
           /\ StartsWith(analysis.suggestions,
                 (IF win THEN <<>>
                  ELSE <<"Focus on improving your win rate by reviewing losing trades">>)
                 \o (IF gain THEN <<>>
                     ELSE <<"Work on improving your average profit per trade">>)
                 \o (IF k > 2 THEN <<>>
                     ELSE <<"Consider exploring more trading strategies to diversify your approach">>))
           /\ Len(analysis.weaknesses) <= Len(analysis.suggestions)

----------------------------------------------------------------------------
(* Number formatting of the f-strings, src/app.py lines 129-162. *)

RECURSIVE Pow10(_)
Pow10(k) == IF k = 0 THEN 1 ELSE 10 * Pow10(k - 1)

RECURSIVE Pow2(_)
Pow2(k) == IF k = 0 THEN 1 ELSE 2 * Pow2(k - 1)

\* v written with exactly k digits, zero-padded on the left
RECURSIVE Digits(_, _)
Digits(v, k) ==
    IF k = 0 THEN "" ELSE Digits(v \div 10, k - 1) \o ToString(v % 10)

\* the p with 2^p <= n/d < 2^(p+1), for n, d > 0
RECURSIVE Log2Floor(_, _)
Log2Floor(n, d) ==
    IF n >= 2 * d THEN Log2Floor(n, 2 * d) + 1
    ELSE IF n < d THEN Log2Floor(2 * n, d) - 1
    ELSE 0

\* (r * 2^e) mod m
RECURSIVE DoubleMod(_, _, _)
DoubleMod(r, e, m) ==
    IF e = 0 THEN r % m
    ELSE IF e >= 4 THEN DoubleMod((16 * r) % m, e - 4, m)
    ELSE DoubleMod((2 * r) % m, e - 1, m)

\* The double n / d evaluates to, for n, d > 0: it is M * 2^-e with M the
\* 53-bit integer nearest to n * 2^e / d.  The record gives p = Log2Floor,
\* err = d * M - n * 2^e (the sign of the rounding error, 0 when the quotient
\* is exact) and m = M mod 256.
Quotient(n, d) ==
    LET p  == Log2Floor(n, d)
        e  == 52 - p
        r  == DoubleMod(n % d, e, d)
        up == IF 2 * r > d THEN 1 ELSE 0
    IN [p   |-> p,
        err |-> IF r = 0 THEN 0 ELSE IF up = 1 THEN d - r ELSE 0 - r,
        m   |-> ((DoubleMod(n % (256 * d), e, 256 * d) \div d) + up) % 256]

\* n / d * 10^k rounded to an integer, for n >= 0; a decimal tie goes the way
\* of dir (the sign of double - exact), to even when the double is exact.
\* Away from a tie the double and the exact quotient round alike.
RoundAt(n, d, k, dir) ==
    LET q     == n * Pow10(k)
        whole == q \div d
        rem   == q % d
    IN IF 2 * rem > d THEN whole + 1
       ELSE IF 2 * rem < d THEN whole
       ELSE IF dir > 0 THEN whole + 1
       ELSE IF dir < 0 THEN whole
       ELSE IF whole % 2 = 1 THEN whole + 1 ELSE whole

\* r / 10^k written with k decimals
Decimal(r, k) == ToString(r \div Pow10(k)) \o "." \o Digits(r % Pow10(k), k)

\* format(x, ".kf"): the double x written with k decimals, correctly rounded
FormatFixed(x, k) ==
    LET g == GCD(Abs(x.n), x.d)
        n == Abs(x.n) \div g
        d == x.d \div g
    IN IF n = 0 THEN Decimal(0, k)
       ELSE (IF x.n < 0 THEN "-" ELSE "")
                \o Decimal(RoundAt(n, d, k, Quotient(n, d).err), k)

\* sign of (x * 100 as a double) - (100 * n / d), for the double x = n / d:
\* 100 * M is rounded to 53 bits again, dropping s = 6 or 7 low bits
PercentError(n, d) ==
    LET qt   == Quotient(n, d)
        k    == 5 + qt.p
        s    == IF 25 * n * (IF k < 0 THEN Pow2(0 - k) ELSE 1)
                      >= d * (IF k > 0 THEN Pow2(k) ELSE 1)
                THEN 7 ELSE 6
        t    == (100 * qt.m) % Pow2(s)
        half == Pow2(s - 1)
        odd  == ((100 * qt.m) % Pow2(s + 1)) \div Pow2(s)
        a    == IF t < half \/ (t = half /\ odd = 0) THEN 0 - t ELSE Pow2(s) - t
    IN a * d + 100 * qt.err

\* format(x, ".1%"): x * 100, computed as a double, with one decimal and "%"
FormatPercent(x) ==
    LET g == GCD(Abs(x.n), x.d)
        n == Abs(x.n) \div g
        d == x.d \div g
    IN IF n = 0 THEN Decimal(0, 1) \o "%"
       ELSE (IF x.n < 0 THEN "-" ELSE "")
                \o Decimal(RoundAt(100 * n, d, 1, PercentError(n, d)), 1) \o "%"

----------------------------------------------------------------------------
(* generate_coach_response, src/app.py lines 125-177. *)

\* outcome of evaluating an expression: a value, or the exception raised
Ok(v) == [exc |-> "none", value |-> v]
Raise(e) == [exc |-> e, value |-> ""]

\* l[i] for i >= 0
Subscript(l, i) == IF i < Len(l) THEN Ok(l[i + 1]) ELSE Raise("IndexError")

\* l[:stop]
Slice(l, stop) == SubSeq(l, 1, IF stop < Len(l) THEN stop ELSE Len(l))

\* suggestions[0] evaluated whether or not the list is empty
first_suggestion_unguarded(ta) == Subscript(ta.suggestions, 0)

\* trade_analysis.suggestions[0] if trade_analysis.suggestions
\*     else 'maintaining a trading journal'          (line 162)
first_suggestion(ta) ==
    IF ta.suggestions # <<>> THEN Subscript(ta.suggestions, 0)
    ELSE Ok("maintaining a trading journal")

\* lines 128-137
win_rate_templates(ta) ==
    << "Your win rate is " \o FormatPercent(ta.win_rate) \o ". "
         \o (IF AboveHalf(ta.win_rate)
             THEN "This is above the 50% mark, which is great! "
             ELSE "This is below 50%, but remember that with a good risk-reward ratio, you can still be profitable. ")
         \o "Focus on the quality of your setups rather than quantity.",
       "Based on your trading history, you're winning "
         \o FormatPercent(ta.win_rate) \o " of the time. "
         \o "Remember that even the best traders don't win every trade. "
         \o "The key is to ensure your winners are bigger than your losers." >>

\* lines 139-146
improvement_templates(ta) ==
    << "To improve your trading results, I recommend focusing on these key areas: "
         \o JoinStr(", ", Slice(ta.suggestions, 2)) \o ". "
         \o "Keep a detailed trading journal and review it weekly to identify patterns.",
       "The path to improvement starts with consistency and discipline. "
         \o "Based on your trades, I suggest working on: "
         \o JoinStr(", ", Slice(ta.suggestions, 2)) \o ". "
         \o "Consider setting specific, measurable goals for each trading session." >>

\* lines 148-154
strengths_templates(ta) ==
    << "Your strengths as a trader include: " \o JoinStr(", ", ta.strengths) \o ". "
         \o "Continue to build on these while addressing your areas for improvement.",
       "You're doing well with " \o JoinStr(", ", ta.strengths) \o ". "
         \o "These are solid foundations to build upon. Consider focusing next on your risk management approach." >>

\* lines 156-164, given the value of the conditional expression of line 162
default_templates(ta, first) ==
    << "Looking at your trading data with a win rate of "
         \o FormatPercent(ta.win_rate) \o " and average P&L of $"
         \o FormatFixed(ta.avg_profit_loss, 2) \o ", "
         \o "I recommend focusing on: "
         \o JoinStr(", ", Slice(ta.suggestions, 2)) \o ". "
         \o "Would you like more specific advice on a particular aspect of your trading?",
       "Based on your trading history, I see both strengths and areas for improvement. "
         \o "Your win rate is " \o FormatPercent(ta.win_rate)
         \o ", and I'd suggest focusing on " \o first \o ". "
         \o "What specific aspect of your trading would you like to discuss?" >>

\* the responses dict (lines 127-165): every template of every category is
\* built before the category is known, so an exception in any of them is
\* raised by the call
responses(ta) ==
    LET first == first_suggestion(ta)
    IN IF first.exc # "none" THEN first
       ELSE Ok([win_rate    |-> win_rate_templates(ta),
                improvement |-> improvement_templates(ta),
                strengths   |-> strengths_templates(ta),
                default     |-> default_templates(ta, first.value)])

WinRateTerms == { <<"w","i","n"," ","r","a","t","e">>,
                  <<"w","i","n","n","i","n","g">>,
                  <<"s","u","c","c","e","s","s"," ","r","a","t","e">> }
ImprovementTerms == { <<"i","m","p","r","o","v","e">>,
                      <<"b","e","t","t","e","r">>,
                      <<"e","n","h","a","n","c","e">>,
                      <<"i","n","c","r","e","a","s","e">>,
                      <<"b","o","o","s","t">> }
StrengthsTerms == { <<"s","t","r","e","n","g","t","h">>,
                    <<"g","o","o","d"," ","a","t">>,
                    <<"e","x","c","e","l">>,
                    <<"p","o","s","i","t","i","v","e">> }

\* category with the improvement test ahead of the win_rate test
category_improvement_first(msg) ==
    IF ContainsAny(lower(msg), ImprovementTerms) THEN "improvement"
    ELSE IF ContainsAny(lower(msg), WinRateTerms) THEN "win_rate"
    ELSE IF ContainsAny(lower(msg), StrengthsTerms) THEN "strengths"
    ELSE "default"

\* lines 168-174
category(msg) ==
    IF ContainsAny(lower(msg), WinRateTerms) THEN "win_rate"
    ELSE IF ContainsAny(lower(msg), ImprovementTerms) THEN "improvement"
    ELSE IF ContainsAny(lower(msg), StrengthsTerms) THEN "strengths"
    ELSE "default"

\* number of templates per category: what random.choice draws from
TemplateIndexes == {1, 2}

\* generate_coach_response(user_message, trade_analysis), where choice is the
\* index random.choice (line 177) drew
generate_coach_response(msg, ta, choice) ==
    LET r == responses(ta)
    IN IF r.exc # "none" THEN r ELSE Ok(r.value[category(msg)][choice])

----------------------------------------------------------------------------
(* Inputs of generate_coach_response. *)

M_empty       == <<>>
M_winrate     == <<"W","h","a","t","'","s"," ","m","y"," ","w","i","n"," ","r","a","t","e","?">>
M_win_improve == <<"I","M","P","R","O","V","E"," ","m","y"," ","W","i","n","n","i","n","g">>
M_win_pos     == <<"p","o","s","i","t","i","v","e"," ","S","u","c","c","e","s","s"," ","R","a","t","e">>
M_better      == <<"g","e","t"," ","b","e","t","t","e","r">>
M_boost_good  == <<"g","o","o","d"," ","a","t","?"," ","b","o","o","s","t">>
M_strengths   == <<"m","y"," ","S","t","r","e","n","g","t","h","s">>
M_excellent   == <<"E","x","c","e","l","l","e","n","t">>
M_hello       == <<"h","e","l","l","o">>
M_win_gap     == <<"w","i","n"," "," ","r","a","t","e">>
M_winnings    == <<"w","i","n","n","i","n","g","s">>

MessageTexts ==
    { M_empty, M_winrate, M_win_improve, M_win_pos, M_better, M_boost_good,
      M_strengths, M_excellent, M_hello, M_win_gap, M_winnings }

\* longest strengths / suggestions list of an analysis given as input
MaxEntries == 3

SuggestionPool ==
    << "Focus on improving your win rate by reviewing losing trades",
       "Work on improving your average profit per trade",
       "Consider exploring more trading strategies to diversify your approach",
       "Work on emotional discipline during trading",
       "Start recording your trades to get personalized analysis." >>
StrengthPool ==
    << "Above 50% win rate", "Positive average P&L",
       "Evidence of trade planning in notes",
       "Diverse trading approaches (3 different strategies)",
       "Diverse trading approaches (4 different strategies)" >>

Prefixes(pool) ==
    { SubSeq(pool, 1, k) :
        k \in 0..(IF MaxEntries < Len(pool) THEN MaxEntries ELSE Len(pool)) }

\* well-formed TradeAnalysisResult values
AnalysisInputs ==
    [ win_rate        : {Zero, Div(1, 2000), Div(1, 3), Div(1, 2), Div(2, 3),
                         Div(1, 1)},
      avg_profit_loss : {Div(-25, 3), Zero, Div(1, 200), Div(25, 3)},
      strategies      : {<<>>},
      strengths       : Prefixes(StrengthPool),
      weaknesses      : {<<>>},
      suggestions     : Prefixes(SuggestionPool) ]

----------------------------------------------------------------------------
(* Specification of generate_coach_response applied to a message and an     *)
(* analysis.                                                                *)

InitCoach ==
    /\ pc = "respond"
    /\ user_message \in MessageTexts
    /\ analysis \in AnalysisInputs
    /\ trades = <<>>
    /\ coach = <<>>
    /\ endpoint = "none"
    /\ credentials = TRUE
    /\ store = "ok"
    /\ messages = <<>>
    /\ user_id = "none"
    /\ calls = <<>>
    /\ reply = <<>>

GenerateCoachResponse ==
    /\ pc = "respond"
    /\ \E choice \in TemplateIndexes :
           coach' = generate_coach_response(user_message, analysis, choice)
    /\ pc' = "responded"
    /\ UNCHANGED <<trades, analysis, user_message, endpoint, credentials,
                   store, messages, user_id, calls, reply>>

NextCoach == GenerateCoachResponse

SpecCoach == InitCoach /\ [][NextCoach]_vars

----------------------------------------------------------------------------
(* Properties of generate_coach_response, checked under SpecCoach. *)

Categories == {"win_rate", "improvement", "strengths", "default"}

\* the templates of category c for analysis ta, as a set
TemplatesOf(ta, c) == Range(responses(ta).value[c])

MentionsAny(msg, terms) == \E term \in terms : Contains(lower(msg), term)

\* C5: the reply is a template of the first category, in the order win_rate,
\* improvement, strengths, default, one of whose keywords the lower-cased
\* message contains, and of no other category: a message with a win_rate
\* keyword gets a win_rate template whatever else it contains, a message
\* with no keyword a default template.
C5_Category ==
    pc = "responded" =>
        LET expected ==
                IF MentionsAny(user_message, WinRateTerms) THEN "win_rate"
                ELSE IF MentionsAny(user_message, ImprovementTerms) THEN "improvement"
                ELSE IF MentionsAny(user_message, StrengthsTerms) THEN "strengths"
                ELSE "default"
        IN /\ coach.exc = "none"
           /\ coach.value \in TemplatesOf(analysis, expected)
           /\ \A c \in Categories \ {expected} :
                  coach.value \notin TemplatesOf(analysis, c)

\* a message with a win_rate keyword and an improvement keyword
C5_Witness ==
    /\ pc = "responded"
    /\ user_message = M_win_improve
    /\ coach.value \in TemplatesOf(analysis, "win_rate")

\* C6: generate_coach_response raises nothing and returns a string for
\* every message and every well-formed analysis, also when strengths,
\* weaknesses and suggestions are all empty, whichever category is selected.
C6_NeverRaises ==
    pc = "responded" => (coach.exc = "none" /\ coach.value \in STRING)

\* all lists empty, and a category other than default selected
C6_Witness ==
    /\ pc = "responded"
    /\ analysis.strengths = <<>>
    /\ analysis.weaknesses = <<>>
    /\ analysis.suggestions = <<>>
    /\ user_message = M_winrate
    /\ coach.exc = "none"

----------------------------------------------------------------------------
(* The HTTP handlers, src/app.py lines 23-30 and 180-222. *)

\* raise HTTPException(status_code, detail)
HTTPException(status, detail) == [status |-> status, detail |-> detail]

\* a dict returned by a handler, sent as a 200 response
Returned(body) == [status |-> 200, body |-> body]

\* the "trades" table of the external store; select("*") returns every
\* column, user_id included
StoredRows ==
    << [user_id |-> "u1", pnl |-> 10, trade_type |-> T_scalp, notes |-> N_plan],
       [user_id |-> "u3", pnl |-> 10],
       [user_id |-> "u1", pnl |-> -10, trade_type |-> T_sp_swing, notes |-> N_greedy],
       [user_id |-> "u3", pnl |-> -5],
       [user_id |-> "u1", pnl |-> 20, trade_type |-> T_day],
       [user_id |-> "u3", pnl |-> 20] >>

UserIds == {"u1", "u2", "u3"}

\* errors the store's execute() raises
StoreErrors == {"503 Service Unavailable"}

\* supabase.table("trades").select("*").eq("user_id", uid).execute().data
query(uid) == SelectSeq(StoredRows, LAMBDA row : row.user_id = uid)

\* Optional[str]
None == [none |-> TRUE, content |-> <<>>]
Some(c) == [none |-> FALSE, content |-> c]

\* the loop of lines 199-202 run forwards: the first user message
RECURSIVE first_user_message(_)
first_user_message(msgs) ==
    IF msgs = <<>> THEN None
    ELSE IF Head(msgs).role = "user" THEN Some(Head(msgs).content)
    ELSE first_user_message(Tail(msgs))

\* lines 198-202: the content of the last message whose role is "user"
RECURSIVE last_user_message(_)
last_user_message(msgs) ==
    IF msgs = <<>> THEN None
    ELSE IF msgs[Len(msgs)].role = "user" THEN Some(msgs[Len(msgs)].content)
    ELSE last_user_message(SubSeq(msgs, 1, Len(msgs) - 1))

\* not last_message
Falsy(m) == m.none \/ m.content = <<>>

Roles == {"user", "assistant"}
Contents == {M_empty, M_winrate, M_better}
Messages == [role : Roles, content : Contents]
MessageLists == UNION { [1..n -> Messages] : n \in 0..MaxMessages }

Init ==
    /\ pc = "request"
    /\ endpoint \in {"chat", "trade-analysis"}
    /\ credentials \in BOOLEAN
    /\ store \in {"ok"} \cup StoreErrors
    /\ messages \in (IF endpoint = "chat" THEN MessageLists ELSE {<<>>})
    /\ user_id \in UserIds
    /\ trades = <<>>
    /\ analysis = <<>>
    /\ user_message = <<>>
    /\ coach = <<>>
    /\ calls = <<>>
    /\ reply = <<>>

\* Depends(get_supabase_client), lines 23-30: resolved before the handler runs
GetSupabaseClient ==
    /\ pc = "request"
    /\ calls' = Append(calls, "get_supabase_client")
    /\ IF ~credentials
       THEN /\ reply' = HTTPException(500, "Missing Supabase credentials")
            /\ pc' = "done"
       ELSE /\ reply' = reply
            /\ pc' = IF endpoint = "chat" THEN "chat" ELSE "ta:fetch"
    /\ UNCHANGED <<trades, analysis, user_message, coach, endpoint,
                   credentials, store, messages, user_id>>

\* get_trade_analysis, line 184
AnalysisFetch ==
    /\ pc = "ta:fetch"
    /\ calls' = Append(calls, "fetch")
    /\ IF store = "ok"
       THEN /\ trades' = query(user_id)
            /\ pc' = "ta:analyze"
            /\ reply' = reply
       ELSE /\ trades' = trades
            /\ pc' = "done"
            /\ reply' = HTTPException(500, "Error analyzing trades: " \o store)
    /\ UNCHANGED <<analysis, user_message, coach, endpoint, credentials,
                   store, messages, user_id>>

\* get_trade_analysis, lines 188-189
AnalysisAnalyze ==
    /\ pc = "ta:analyze"
    /\ calls' = Append(calls, "analyze_trades")
    /\ \E strategies \in ListOrders(strategy_set(trades)) :
           analysis' = analyze_trades(trades, strategies)
    /\ reply' = Returned(analysis')
    /\ pc' = "done"
    /\ UNCHANGED <<trades, user_message, coach, endpoint, credentials,
                   store, messages, user_id>>

\* chat, lines 198-205, with the early return taken out
ChatLastMessage_no_return ==
    /\ pc = "chat"
    /\ user_message' = last_user_message(messages).content
    /\ pc' = "chat:fetch"
    /\ UNCHANGED <<trades, analysis, coach, endpoint, credentials, store,
                   messages, user_id, calls, reply>>

\* chat, lines 198-205
ChatLastMessage ==
    /\ pc = "chat"
    /\ LET last_message == last_user_message(messages)
       IN IF Falsy(last_message)
          THEN /\ reply' = Returned([response |->
                                "I didn't receive a message to respond to."])
               /\ pc' = "done"
               /\ user_message' = user_message
          ELSE /\ user_message' = last_message.content
               /\ pc' = "chat:fetch"
               /\ reply' = reply
    /\ UNCHANGED <<trades, analysis, coach, endpoint, credentials, store,
                   messages, user_id, calls>>

\* chat, line 208, with the store's error swallowed
ChatFetch_swallow ==
    /\ pc = "chat:fetch"
    /\ calls' = Append(calls, "fetch")
    /\ trades' = IF store = "ok" THEN query(user_id) ELSE <<>>
    /\ pc' = "chat:analyze"
    /\ UNCHANGED <<analysis, user_message, coach, endpoint, credentials,
                   store, messages, user_id, reply>>

\* chat, lines 208-209 (and 221-222 when execute() raises)
ChatFetch ==
    /\ pc = "chat:fetch"
    /\ calls' = Append(calls, "fetch")
    /\ IF store = "ok"
       THEN /\ trades' = query(user_id)
            /\ pc' = "chat:analyze"
            /\ reply' = reply
       ELSE /\ trades' = trades
            /\ pc' = "done"
            /\ reply' = HTTPException(500, "Error processing chat: " \o store)
    /\ UNCHANGED <<analysis, user_message, coach, endpoint, credentials,
                   store, messages, user_id>>

\* chat, line 212
ChatAnalyze ==
    /\ pc = "chat:analyze"
    /\ calls' = Append(calls, "analyze_trades")
    /\ \E strategies \in ListOrders(strategy_set(trades)) :
           analysis' = analyze_trades(trades, strategies)
    /\ pc' = "chat:respond"
    /\ UNCHANGED <<trades, user_message, coach, endpoint, credentials,
                   store, messages, user_id, reply>>

\* chat, lines 215-220 (and 221-222 when the call raises)
ChatRespond ==
    /\ pc = "chat:respond"
    /\ calls' = Append(calls, "generate_coach_response")
    /\ \E choice \in TemplateIndexes :
           coach' = generate_coach_response(user_message, analysis, choice)
    /\ reply' = IF coach'.exc = "none"
                THEN Returned([response |-> coach'.value, analysis |-> analysis])
                ELSE HTTPException(500, "Error processing chat: " \o coach'.exc)
    /\ pc' = "done"
    /\ UNCHANGED <<trades, analysis, user_message, endpoint, credentials,
                   store, messages, user_id>>

Next ==
    \/ GetSupabaseClient
    \/ AnalysisFetch
    \/ AnalysisAnalyze
    \/ ChatLastMessage
    \/ ChatFetch
    \/ ChatAnalyze
    \/ ChatRespond

Spec == Init /\ [][Next]_vars

----------------------------------------------------------------------------
(* Properties of the handlers, checked under Spec. *)

Count(l, x) == Cardinality({ i \in DOMAIN l : l[i] = x })
IsPrefix(l, m) == Len(l) <= Len(m) /\ SubSeq(m, 1, Len(l)) = l
ChatCalls ==
    <<"get_supabase_client", "fetch", "analyze_trades", "generate_coach_response">>
NoMessageReply == Returned([response |-> "I didn't receive a message to respond to."])

\* index of the last message whose role is "user", 0 when there is none
LastUserIndex ==
    LET users == { i \in DOMAIN messages : messages[i].role = "user" }
    IN IF users = {} THEN 0 ELSE CHOOSE i \in users : \A j \in users : j <= i

\* the rows of the table that belong to uid, in table order
RECURSIVE RowsOf(_, _)
RowsOf(rows, uid) ==
    IF rows = <<>> THEN <<>>
    ELSE IF Head(rows).user_id = uid THEN <<Head(rows)>> \o RowsOf(Tail(rows), uid)
    ELSE RowsOf(Tail(rows), uid)

\* C7 as stated: every chat request that is answered has made exactly one
\* fetch, then one analyze_trades call, then one generate_coach_response
\* call, whatever its message list.
C7_EveryChatRequest ==
    (endpoint = "chat" /\ pc = "done" /\ reply.status = 200) =>
        calls = ChatCalls

\* C7, amended: a chat request makes its calls in the order client, fetch,
\* analyze_trades, generate_coach_response, each at most once; an answered
\* request has made all of them when its last user message has non-empty
\* content, and none of fetch, analyze_trades and generate_coach_response
\* otherwise, the answer then being the fixed no-message reply.
C7_ChatCalls ==
    endpoint = "chat" =>
        /\ IsPrefix(calls, ChatCalls)
        /\ (pc = "done" /\ reply.status = 200) =>
              IF LastUserIndex # 0 /\ messages[LastUserIndex].content # <<>>
              THEN calls = ChatCalls
              ELSE calls = <<"get_supabase_client">> /\ reply = NoMessageReply

\* an answered request with an assistant message after the user's
C7_Witness ==
    /\ endpoint = "chat"
    /\ pc = "done"
    /\ reply.status = 200
    /\ Len(messages) = 2
    /\ messages[1].role = "user"
    /\ messages[2].role = "assistant"
    /\ calls = ChatCalls

\* C8: in both endpoints a failing fetch ends the request with a 500 whose
\* detail carries the store's error; the fetch is made once, neither
\* analyze_trades nor generate_coach_response runs after it and no analysis
\* or response is returned.  Without credentials the request ends with a 500
\* before any fetch.
C8_FetchFailure ==
    /\ Count(calls, "fetch") <= 1
    /\ ~credentials =>
          /\ "fetch" \notin Range(calls)
          /\ pc = "done" =>
                reply = HTTPException(500, "Missing Supabase credentials")
    /\ ("fetch" \in Range(calls) /\ store # "ok") =>
          /\ pc = "done"
          /\ DOMAIN reply = {"status", "detail"}
          /\ reply.status = 500
          /\ reply.detail =
                (IF endpoint = "chat" THEN "Error processing chat: "
                 ELSE "Error analyzing trades: ") \o store
          /\ "analyze_trades" \notin Range(calls)
          /\ "generate_coach_response" \notin Range(calls)
          /\ analysis = <<>>
          /\ coach = <<>>

\* a chat request whose fetch failed
C8_Witness ==
    /\ endpoint = "chat"
    /\ pc = "done"
    /\ store \in StoreErrors
    /\ calls = <<"get_supabase_client", "fetch">>
    /\ reply.status = 500

\* the reply {response, analysis} to the message text: analysis is
\* analyze_trades of the rows of the request's user_id and response is
\* generate_coach_response of text and that analysis
AnswersText(text) ==
    LET rows == RowsOf(StoredRows, user_id)
    IN /\ DOMAIN reply = {"status", "body"}
       /\ reply.status = 200
       /\ DOMAIN reply.body = {"response", "analysis"}
       /\ reply.body.analysis \in
             { analyze_trades(rows, o) : o \in ListOrders(strategy_set(rows)) }
       /\ reply.body.response \in
             { generate_coach_response(text, reply.body.analysis, c).value :
                 c \in TemplateIndexes }

\* C10 as stated: when the list has a user message and the fetch succeeds,
\* the reply answers the content of the last user message; when it has none,
\* the reply is the fixed no-message reply.
C10_AnswersLastUser ==
    (endpoint = "chat" /\ pc = "done" /\ credentials /\ store = "ok") =>
        IF LastUserIndex # 0
        THEN AnswersText(messages[LastUserIndex].content)
        ELSE reply = NoMessageReply

\* C10, amended: the reply answers the content of the last user message
\* when that content is non-empty; when the list has no user message or the
\* last one has empty content, the reply is the fixed no-message reply.
C10_AnswersLastNonEmpty ==
    (endpoint = "chat" /\ pc = "done" /\ credentials /\ store = "ok") =>
        IF LastUserIndex # 0 /\ messages[LastUserIndex].content # <<>>
        THEN AnswersText(messages[LastUserIndex].content)
        ELSE reply = NoMessageReply

\* an earlier user message and a later assistant message are both ignored
C10_Witness ==
    /\ endpoint = "chat"
    /\ pc = "done"
    /\ messages = << [role |-> "user", content |-> M_better],
                     [role |-> "user", content |-> M_winrate],
                     [role |-> "assistant", content |-> M_better] >>
    /\ user_id = "u1"
    /\ "body" \in DOMAIN reply
    /\ reply.body.response \in TemplatesOf(analysis, "win_rate")

============================================================================
